---------------------------- MODULE Spec2Model ----------------------------
(***************************************************************************)
(* Model of the todo preset service (app/domain/todo/preset_service.py and *)
(* app/domain/todo/schema/preset.py): loading preset documents from the    *)
(* presets directory, listing them, counting the nodes of a todo forest,   *)
(* and materialising a preset as one tag group, its tags and its todo tree *)
(* through the tag and todo creation collaborators.                        *)
(*                                                                         *)
(* Conventions.  An Optional[T] value is None (the empty tuple) or Some(v) *)
(* (the one-element tuple <<v>>).  A call's outcome is Ok(v) or Err(exc).  *)
(* A JSON object is a record whose DOMAIN holds exactly the keys present   *)
(* in the document; a nullable JSON member that is present holds None for  *)
(* null and Some(v) otherwise.                                             *)
(***************************************************************************)
EXTENDS Integers, Sequences, FiniteSets, TLC

\* ---------------------------------------------------------------- bounds
\* Largest number of todo nodes in a generated preset forest.
MaxNodes == 3
\* Largest number of entries in a generated preset tag list.
MaxTags == 2
\* Largest number of directory entries in a generated presets directory.
MaxFiles == 2

\* ------------------------------------------------------- basic encodings
None == <<>>
Some(v) == <<v>>
IsNone(o) == Len(o) = 0
Get(o) == o[1]

Ok(v) == [ok |-> TRUE, val |-> v]
Err(e) == [ok |-> FALSE, exc |-> e]

\* Python truthiness of an Optional[List]: None and [] are both falsy.
Truthy(optList) == ~IsNone(optList) /\ Len(Get(optList)) > 0

\* The exception classes of the handlers, with their Python base classes.
ValueErrorClasses == {"ValueError", "JSONDecodeError", "UnicodeDecodeError", "ValidationError"}

\* ------------------------------------------------------------- schema
\* app.utils.validators.validate_color: accepts "#RRGGBB" strings.
HexColors == {"#FF0000", "#00FF00"}
validate_color(v) == IF v \in HexColors THEN Ok(v) ELSE Err([type |-> "ValidationError"])

\* Optional member of a JSON object: absent and null both give None.
OptMember(obj, key) == IF key \in DOMAIN obj THEN obj[key] ELSE None

\* PresetTag.model_validate
PresetTagValid(j) ==
    /\ {"name", "color"} \subseteq DOMAIN j
    /\ validate_color(j.color).ok

PresetTag(j) ==
    [name |-> j.name, color |-> validate_color(j.color).val,
     description |-> OptMember(j, "description")]

\* PresetTagGroup.model_validate
PresetTagGroupValid(j) ==
    /\ {"name", "color"} \subseteq DOMAIN j
    /\ validate_color(j.color).ok

PresetTagGroup(j) ==
    [name |-> j.name, color |-> validate_color(j.color).val,
     description |-> OptMember(j, "description"),
     goal_ratios |-> OptMember(j, "goal_ratios"),
     is_todo_group |-> IF "is_todo_group" \in DOMAIN j THEN j.is_todo_group ELSE TRUE]

\* PresetTodo.model_validate (recursive through children)
RECURSIVE PresetTodoValid(_)
PresetTodoValid(j) ==
    /\ "title" \in DOMAIN j
    /\ LET ch == OptMember(j, "children")
       IN  IsNone(ch) \/ \A i \in 1..Len(Get(ch)) : PresetTodoValid(Get(ch)[i])

RECURSIVE PresetTodo(_)
PresetTodo(j) ==
    LET ch == OptMember(j, "children")
    IN  [title |-> j.title,
         description |-> OptMember(j, "description"),
         tag_names |-> OptMember(j, "tag_names"),
         children |-> IF IsNone(ch) THEN None
                      ELSE Some([i \in 1..Len(Get(ch)) |-> PresetTodo(Get(ch)[i])])]

\* Preset.model_validate
PresetValid(j) ==
    /\ {"name", "tag_group"} \subseteq DOMAIN j
    /\ PresetTagGroupValid(j.tag_group)
    /\ "tags" \in DOMAIN j => \A i \in 1..Len(j.tags) : PresetTagValid(j.tags[i])
    /\ "todos" \in DOMAIN j => \A i \in 1..Len(j.todos) : PresetTodoValid(j.todos[i])

Preset(j) ==
    [name |-> j.name,
     description |-> OptMember(j, "description"),
     tag_group |-> PresetTagGroup(j.tag_group),
     tags |-> IF "tags" \in DOMAIN j
              THEN [i \in 1..Len(j.tags) |-> PresetTag(j.tags[i])] ELSE <<>>,
     todos |-> IF "todos" \in DOMAIN j
               THEN [i \in 1..Len(j.todos) |-> PresetTodo(j.todos[i])] ELSE <<>>]

model_validate(data) ==
    IF PresetValid(data) THEN Ok(Preset(data)) ELSE Err([type |-> "ValidationError"])

PresetInfo(name, description, tag_count, todo_count) ==
    [name |-> name, description |-> description,
     tag_count |-> tag_count, todo_count |-> todo_count]

PresetInitializeResult(preset_name, tag_group_id, tags_created, todos_created) ==
    [preset_name |-> preset_name, tag_group_id |-> tag_group_id,
     tags_created |-> tags_created, todos_created |-> todos_created]


\* ------------------------------------------------- generated documents
\* The members a generated todo object may carry besides its title.
TagNamesMembers ==
    { [title |-> "t", tag_names |-> Some(<<>>)],
      [title |-> "t", tag_names |-> Some(<<"a">>)],
      [title |-> "t", tag_names |-> Some(<<"b", "a">>)] }

\* JSON todo forests with exactly n nodes; a leaf either has no "children"
\* member or, when emptyLists holds, may carry an empty list.
RECURSIVE JsonForests(_, _, _)
JsonForests(n, base, emptyLists) ==
    IF n = 0 THEN {<<>>}
    ELSE UNION { UNION { { <<node>> \o rest : rest \in JsonForests(n - k, base, emptyLists) } :
                         node \in IF k = 1
                                  THEN base \cup
                                       (IF emptyLists
                                        THEN {[children |-> Some(<<>>)] @@ b : b \in base}
                                        ELSE {})
                                  ELSE {[children |-> Some(f)] @@ b :
                                          b \in base, f \in JsonForests(k - 1, base, emptyLists)} } :
                 k \in 1..n }

JsonForestsUpTo(n, base, emptyLists) == UNION {JsonForests(m, base, emptyLists) : m \in 0..n}

\* The forest with every title replaced by the node's position, the sibling
\* indices from the root joined by dots ("1.2" for the second child of the
\* first root), so that no two nodes of a generated preset share a title.
RECURSIVE Retitle(_, _)
Retitle(forest, prefix) ==
    [i \in 1..Len(forest) |->
        LET node == forest[i]
            here == prefix \o ToString(i)
        IN  IF "children" \in DOMAIN node /\ ~IsNone(node.children)
            THEN [node EXCEPT !.title = here,
                              !.children = Some(Retitle(Get(@), here \o "."))]
            ELSE [node EXCEPT !.title = here]]

\* JSON tag lists of at most MaxTags entries over the names "a" and "b".
JsonTag(name) == [name |-> name, color |-> "#00FF00"]
JsonTagLists ==
    UNION { [1..m -> {JsonTag("a"), JsonTag("b")}] : m \in 0..MaxTags }

JsonTagGroup == [name |-> "Study", color |-> "#FF0000"]

\* Well-formed preset documents: every tag list with every forest of at
\* most MaxNodes nodes.
RichDocs ==
    { [kind |-> "json",
       data |-> [name |-> "study", tag_group |-> JsonTagGroup, tags |-> tl,
                 todos |-> Retitle(f, "")]] :
      tl \in JsonTagLists, f \in JsonForestsUpTo(MaxNodes, TagNamesMembers, FALSE) }

\* The scenario document of the specification: one tag, a root with a child.
StudyDoc ==
    [kind |-> "json",
     data |-> [name |-> "study", description |-> Some("Study plan"),
               tag_group |-> [name |-> "Study", color |-> "#FF0000", is_todo_group |-> FALSE],
               tags |-> <<[name |-> "Math", color |-> "#00FF00"]>>,
               todos |-> <<[title |-> "Read", tag_names |-> Some(<<"Math">>),
                            children |-> Some(<<[title |-> "Chapter 1"]>>)]>>]]

\* A document with neither "tags" nor "todos".
MinimalDoc ==
    [kind |-> "json", data |-> [name |-> "project", tag_group |-> JsonTagGroup]]

\* A document whose todos spell out null and empty members.
NullsDoc ==
    [kind |-> "json",
     data |-> [name |-> "project", tag_group |-> JsonTagGroup,
               todos |-> <<[title |-> "Plan", tag_names |-> None, children |-> None],
                           [title |-> "Ship", tag_names |-> Some(<<>>),
                            children |-> Some(<<>>)]>>]]

\* Documents that do not load: not JSON, not UTF-8, a colour that is not
\* hexadecimal, no tag group, a nested todo without a title.
GarbageDoc == [kind |-> "garbage"]
BinaryDoc == [kind |-> "binary"]
BadColorDoc ==
    [kind |-> "json",
     data |-> [name |-> "broken", tag_group |-> JsonTagGroup,
               tags |-> <<[name |-> "a", color |-> "red"]>>]]
NoGroupDoc == [kind |-> "json", data |-> [name |-> "broken", todos |-> <<[title |-> "t"]>>]]
NoTitleDoc ==
    [kind |-> "json",
     data |-> [name |-> "broken", tag_group |-> JsonTagGroup,
               todos |-> <<[title |-> "t", children |-> Some(<<[tag_names |-> None]>>)]>>]]

CatalogDocs ==
    {StudyDoc, MinimalDoc, NullsDoc, GarbageDoc, BinaryDoc, BadColorDoc, NoGroupDoc, NoTitleDoc}

\* Directory entries: a file name is a stem and an extension.
JsonFile(stem) == [stem |-> stem, ext |-> "json"]
CatalogEntries == {JsonFile("study"), JsonFile("project"), JsonFile("broken"),
                   [stem |-> "notes", ext |-> "txt"]}

\* The names a caller asks for.
CallNames == {"study", "ghost"}

\* The errors a creation collaborator may raise.
DownstreamErrors == {[type |-> "IntegrityError"], [type |-> "OperationalError"]}

\* Validated todo forests given to the counting function.
CountForests ==
    { [i \in 1..Len(f) |-> PresetTodo(f[i])] :
      f \in JsonForestsUpTo(MaxNodes + 2, {[title |-> "t"]}, TRUE) }


\* ---------------------------------------------------------------- state
VARIABLES
    dirExists,       \* whether PRESETS_DIR exists
    files,           \* the entries of PRESETS_DIR: file name -> content
    pc,              \* position of the running call: "idle", a step, "done"
    op,              \* the operation called
    arg,             \* its argument
    ret,             \* its outcome once pc = "done": Ok(value) or Err(exception)
    preset,          \* initialize_from_preset: the loaded preset (Optional)
    tag_group_id,    \* initialize_from_preset: id of the created tag group (Optional)
    tagIdx,          \* initialize_from_preset: position of the loop over preset.tags
    tag_name_to_id,  \* initialize_from_preset: the name -> id dict
    stack,           \* the frames of _create_todos_recursive, innermost last
    nextId,          \* the collaborators' source of fresh identifiers (a counter
                     \* stands for uuid generation: no property reads the order of ids)
    tagGroups,       \* persistence layer: tag group rows
    tags,            \* persistence layer: tag rows
    todos,           \* persistence layer: todo rows
    log              \* every creation request issued, with its outcome

vars == <<dirExists, files, pc, op, arg, ret, preset, tag_group_id, tagIdx,
          tag_name_to_id, stack, nextId, tagGroups, tags, todos, log>>

fsVars == <<dirExists, files>>
dbVars == <<nextId, tagGroups, tags, todos, log>>
localVars == <<preset, tag_group_id, tagIdx, tag_name_to_id, stack>>

\* Rows the user already owns before any call.
PriorGroup == [id |-> 0, name |-> "Old", color |-> "#00FF00", description |-> None,
               goal_ratios |-> None, is_todo_group |-> TRUE]
PriorTodo == [id |-> -1, title |-> "old", description |-> None, tag_group_id |-> 0,
              tag_ids |-> None, parent_id |-> None]

\* -------------------------------------------------------- repository
\* Mutant: the ".json" suffix is forgotten.
PathWithoutSuffix(preset_name) == [stem |-> preset_name, ext |-> ""]

\* PRESETS_DIR / f"{preset_name}.json"
_get_preset_path(preset_name) == [stem |-> preset_name, ext |-> "json"]

\* Path.exists() for a path inside PRESETS_DIR
PathExists(path) == dirExists /\ path \in DOMAIN files

\* json.load on an opened file
json_load(content) ==
    CASE content.kind = "json" -> Ok(content.data)
      [] content.kind = "binary" -> Err([type |-> "UnicodeDecodeError"])
      [] OTHER -> Err([type |-> "JSONDecodeError"])

_load_preset_file(preset_path) ==
    LET data == json_load(files[preset_path])
    IN  IF data.ok THEN model_validate(data.val) ELSE data

\* Mutant: the children are counted, their descendants are not.
CountOneLevel(preset_todos) ==
    LET RECURSIVE Loop(_, _)
        Loop(i, count) ==
            IF i > Len(preset_todos) THEN count
            ELSE Loop(i + 1,
                      IF Truthy(preset_todos[i].children)
                      THEN count + Len(Get(preset_todos[i].children))
                      ELSE count)
    IN  Loop(1, Len(preset_todos))

RECURSIVE _count_todos_recursive(_)
_count_todos_recursive(preset_todos) ==
    LET RECURSIVE Loop(_, _)
        Loop(i, count) ==
            IF i > Len(preset_todos) THEN count
            ELSE Loop(i + 1,
                      IF Truthy(preset_todos[i].children)
                      THEN count + _count_todos_recursive(Get(preset_todos[i].children))
                      ELSE count)
    IN  Loop(1, Len(preset_todos))

\* The message is the f-string of the source: a fixed prefix (rendered here
\* in ASCII), then the requested name.
PresetNotFoundError(preset_name) ==
    [type |-> "PresetNotFoundError", preset_name |-> preset_name,
     message |-> <<"preset not found: ", preset_name>>]

\* PRESETS_DIR.glob("*.json"): the matching entries, in any order.
GlobJson == {f \in DOMAIN files : f.ext = "json"}
GlobOrders ==
    {o \in [1..Cardinality(GlobJson) -> GlobJson] : \A i, j \in DOMAIN o : o[i] = o[j] => i = j}

\* Mutant: only JSONDecodeError is caught.
ListCaughtJsonOnly == {"JSONDecodeError"}

\* The classes named by list_presets' except clause.
ListCaught == {"JSONDecodeError", "ValueError"}

\* isinstance(exc, cls) for the exception classes that occur.
IsInstance(exc, cls) ==
    \/ exc.type = cls
    \/ cls = "ValueError" /\ exc.type \in ValueErrorClasses
    \/ cls = "Exception"

RECURSIVE ListLoop(_, _)
ListLoop(order, presets) ==
    IF order = <<>> THEN Ok(presets)
    ELSE LET r == _load_preset_file(Head(order))
         IN  IF r.ok
             THEN ListLoop(Tail(order),
                           Append(presets,
                                  PresetInfo(r.val.name, r.val.description, Len(r.val.tags),
                                             _count_todos_recursive(r.val.todos))))
             ELSE IF \E cls \in ListCaught : IsInstance(r.exc, cls)
                  THEN ListLoop(Tail(order), presets)
                  ELSE r

list_presets(order) == IF ~dirExists THEN Ok(<<>>) ELSE ListLoop(order, <<>>)

get_preset(preset_name) ==
    LET preset_path == _get_preset_path(preset_name)
    IN  IF ~PathExists(preset_path) THEN Err(PresetNotFoundError(preset_name))
        ELSE _load_preset_file(preset_path)

\* -------------------------------------------------------------- initial
InitLocals ==
    /\ pc = "idle" /\ op = "none" /\ ret = None
    /\ preset = None /\ tag_group_id = None /\ tagIdx = 0
    /\ tag_name_to_id = <<>> /\ stack = <<>>
    /\ nextId = 1 /\ tagGroups = {PriorGroup} /\ tags = {} /\ todos = {PriorTodo}
    /\ log = <<>>

\* A presets directory that is absent, or holds at most MaxFiles entries
\* with any mix of documents.
InitCatalog ==
    /\ dirExists \in BOOLEAN
    /\ IF dirExists
       THEN \E names \in SUBSET CatalogEntries :
               /\ Cardinality(names) <= MaxFiles
               /\ files \in [names -> CatalogDocs]
       ELSE files = <<>>

\* A presets directory that holds one well-formed preset document.
InitRich ==
    /\ dirExists = TRUE
    /\ \E doc \in RichDocs : files = [f \in {JsonFile("study")} |-> doc]

Init == InitLocals /\ arg = None /\ (InitCatalog \/ InitRich)

\* ----------------------------------------------------- atomic operations
ListPresets ==
    /\ pc = "idle"
    /\ \E order \in GlobOrders : ret' = list_presets(order)
    /\ op' = "list_presets" /\ pc' = "done"
    /\ UNCHANGED <<arg, fsVars, dbVars, localVars>>

GetPreset ==
    /\ pc = "idle"
    /\ \E preset_name \in CallNames :
          /\ arg' = preset_name
          /\ ret' = get_preset(preset_name)
    /\ op' = "get_preset" /\ pc' = "done"
    /\ UNCHANGED <<fsVars, dbVars, localVars>>

\* _count_todos_recursive called on the forest the caller holds.
CountTodos ==
    /\ pc = "idle"
    /\ ret' = Ok(_count_todos_recursive(arg))
    /\ op' = "_count_todos_recursive" /\ pc' = "done"
    /\ UNCHANGED <<arg, fsVars, dbVars, localVars>>


\* ----------------------------------------------- initialize_from_preset
\* str(uuid)
Str(uuid) == <<"uuid", uuid>>

\* TagGroupCreate(...) of the preset's tag group
TagGroupCreate(tg) ==
    [name |-> tg.name, color |-> tg.color, description |-> tg.description,
     goal_ratios |-> tg.goal_ratios, is_todo_group |-> tg.is_todo_group]

\* TagCreate(...) of one preset tag
TagCreate(preset_tag, group_id) ==
    [name |-> preset_tag.name, color |-> preset_tag.color,
     description |-> preset_tag.description, group_id |-> group_id]

\* Mutant: a name that is already a key keeps its first identifier.
DictSetKeepFirst(dict, key, value) ==
    [k \in DOMAIN dict \cup {key} |-> IF k \in DOMAIN dict THEN dict[k] ELSE value]

\* tag_name_to_id[name] = id
DictSet(dict, key, value) ==
    [k \in DOMAIN dict \cup {key} |-> IF k = key THEN value ELSE dict[k]]

\* Mutant: the identifiers are collected in a set and listed in ascending
\* order, which loses the order of tag_names.
ResolveTagIdsViaSet(tag_names, dict) ==
    IF Truthy(tag_names)
    THEN Some(LET names == Get(tag_names)
                  ids == {dict[names[k]] : k \in {k \in DOMAIN names : names[k] \in DOMAIN dict}}
                  RECURSIVE Ascending(_)
                  Ascending(S) ==
                      IF S = {} THEN <<>>
                      ELSE LET least == CHOOSE x \in S : \A y \in S : x <= y
                           IN  <<least>> \o Ascending(S \ {least})
              IN  Ascending(ids))
    ELSE None

\* The list comprehension over tag_names, guarded by their truthiness.
ResolveTagIds(tag_names, dict) ==
    IF Truthy(tag_names)
    THEN Some(LET names == Get(tag_names)
                  kept == SelectSeq(names, LAMBDA name : name \in DOMAIN dict)
              IN  [i \in 1..Len(kept) |-> dict[kept[i]]])
    ELSE None

\* TodoCreate(...) of one preset todo
TodoCreate(preset_todo, group_id, tag_ids, parent_id) ==
    [title |-> preset_todo.title, description |-> preset_todo.description,
     tag_group_id |-> group_id, tag_ids |-> tag_ids, parent_id |-> parent_id]

\* Mutant: the siblings are visited last first, as an explicit stack that
\* pops from the end would.
FrameLastFirst(preset_todos, parent_id) ==
    [preset_todos |-> [k \in 1..Len(preset_todos) |-> preset_todos[Len(preset_todos) + 1 - k]],
     parent_id |-> parent_id, i |-> 1, created_count |-> 0]

\* A frame of _create_todos_recursive: its arguments, its loop position and
\* its counter.
Frame(preset_todos, parent_id) ==
    [preset_todos |-> preset_todos, parent_id |-> parent_id, i |-> 1, created_count |-> 0]

Top == stack[Len(stack)]

\* Mutant: the children are created under the parent of the current node.
AfterCreateUnderGrandparent(frames, todo_id) ==
    LET n == Len(frames)
        top == frames[n]
        node == top.preset_todos[top.i]
        counted == [top EXCEPT !.created_count = @ + 1]
    IN  IF Truthy(node.children)
        THEN Append([frames EXCEPT ![n] = counted],
                    [preset_todos |-> Get(node.children), parent_id |-> top.parent_id,
                     i |-> 1, created_count |-> 0])
        ELSE [frames EXCEPT ![n] = [counted EXCEPT !.i = @ + 1]]

\* The frames after create_todo returned todo_id for the current node:
\* created_count += 1, then either the recursive call on the node's children
\* or the next iteration of the loop.
AfterCreate(frames, todo_id) ==
    LET n == Len(frames)
        top == frames[n]
        node == top.preset_todos[top.i]
        counted == [top EXCEPT !.created_count = @ + 1]
    IN  IF Truthy(node.children)
        THEN Append([frames EXCEPT ![n] = counted],
                    Frame(Get(node.children), Some(todo_id)))
        ELSE [frames EXCEPT ![n] = [counted EXCEPT !.i = @ + 1]]

\* Mutant: the count the recursive call returned is dropped.
AfterReturnDropped(caller, returned) ==
    [caller EXCEPT !.i = @ + 1]

\* The caller's frame after the recursive call returned: created_count +=
\* the returned count, then the next iteration of the loop.
AfterReturn(caller, returned) ==
    [caller EXCEPT !.created_count = @ + returned, !.i = @ + 1]

\* Mutant: a preset that does not load is treated as an empty one, and a
\* result with no rows is returned.
InitializeSwallowingLoadError ==
    /\ pc = "idle"
    /\ \E preset_name \in CallNames :
          LET r == get_preset(preset_name)
          IN  /\ arg' = preset_name
              /\ IF r.ok
                 THEN /\ preset' = Some(r.val)
                      /\ pc' = "create_tag_group"
                      /\ ret' = ret
                 ELSE /\ preset' = preset
                      /\ pc' = "done"
                      /\ ret' = Ok(PresetInitializeResult(preset_name, None, 0, 0))
    /\ op' = "initialize_from_preset"
    /\ UNCHANGED <<fsVars, dbVars, tag_group_id, tagIdx, tag_name_to_id, stack>>

InitializeFromPreset ==
    /\ pc = "idle"
    /\ \E preset_name \in CallNames :
          LET r == get_preset(preset_name)
          IN  /\ arg' = preset_name
              /\ IF r.ok
                 THEN /\ preset' = Some(r.val)
                      /\ pc' = "create_tag_group"
                      /\ ret' = ret
                 ELSE /\ preset' = preset
                      /\ pc' = "done"
                      /\ ret' = r
    /\ op' = "initialize_from_preset"
    /\ UNCHANGED <<fsVars, dbVars, tag_group_id, tagIdx, tag_name_to_id, stack>>

\* Mutant: the exception is swallowed and the loop goes on, so the rejected
\* request is issued again.
RaiseSwallowed(request_op, req, exc) ==
    /\ Len(log) < 8
    /\ log' = Append(log, [op |-> request_op, req |-> req, res |-> Err(exc)])
    /\ UNCHANGED <<arg, op, pc, ret, fsVars, localVars, nextId, tagGroups, tags, todos>>

\* A creation request that the collaborator rejects: the exception leaves
\* initialize_from_preset.
Raise(request_op, req, exc) ==
    /\ log' = Append(log, [op |-> request_op, req |-> req, res |-> Err(exc)])
    /\ pc' = "done"
    /\ ret' = Err(exc)
    /\ UNCHANGED <<arg, op, fsVars, localVars, nextId, tagGroups, tags, todos>>

CreateTagGroup ==
    /\ pc = "create_tag_group"
    /\ LET req == TagGroupCreate(Get(preset).tag_group)
       IN  \/ /\ tagGroups' = tagGroups \cup {[id |-> nextId] @@ req}
              /\ nextId' = nextId + 1
              /\ log' = Append(log, [op |-> "create_tag_group", req |-> req, res |-> Ok(nextId)])
              /\ tag_group_id' = Some(nextId)
              /\ tag_name_to_id' = <<>>
              /\ tagIdx' = 1
              /\ pc' = "create_tags"
              /\ UNCHANGED <<arg, op, ret, fsVars, preset, stack, tags, todos>>
           \/ \E exc \in DownstreamErrors : Raise("create_tag_group", req, exc)

CreateTag ==
    /\ pc = "create_tags"
    /\ tagIdx <= Len(Get(preset).tags)
    /\ LET preset_tag == Get(preset).tags[tagIdx]
           req == TagCreate(preset_tag, Get(tag_group_id))
       IN  \/ /\ tags' = tags \cup {[id |-> nextId] @@ req}
              /\ nextId' = nextId + 1
              /\ log' = Append(log, [op |-> "create_tag", req |-> req, res |-> Ok(nextId)])
              /\ tag_name_to_id' = DictSet(tag_name_to_id, preset_tag.name, nextId)
              /\ tagIdx' = tagIdx + 1
              /\ UNCHANGED <<arg, op, pc, ret, fsVars, preset, tag_group_id, stack,
                             tagGroups, todos>>
           \/ \E exc \in DownstreamErrors : Raise("create_tag", req, exc)

\* The call of _create_todos_recursive on the root list, parent_id = None.
BeginTodos ==
    /\ pc = "create_tags"
    /\ tagIdx > Len(Get(preset).tags)
    /\ stack' = <<Frame(Get(preset).todos, None)>>
    /\ pc' = "create_todos"
    /\ UNCHANGED <<arg, op, ret, fsVars, dbVars, preset, tag_group_id, tagIdx, tag_name_to_id>>

CreateTodo ==
    /\ pc = "create_todos"
    /\ Top.i <= Len(Top.preset_todos)
    /\ LET preset_todo == Top.preset_todos[Top.i]
           tag_ids == ResolveTagIds(preset_todo.tag_names, tag_name_to_id)
           req == TodoCreate(preset_todo, Get(tag_group_id), tag_ids, Top.parent_id)
       IN  \/ /\ todos' = todos \cup {[id |-> nextId] @@ req}
              /\ nextId' = nextId + 1
              /\ log' = Append(log, [op |-> "create_todo", req |-> req, res |-> Ok(nextId)])
              /\ stack' = AfterCreate(stack, nextId)
              /\ UNCHANGED <<arg, op, pc, ret, fsVars, preset, tag_group_id, tagIdx,
                             tag_name_to_id, tagGroups, tags>>
           \/ \E exc \in DownstreamErrors : Raise("create_todo", req, exc)

\* The loop of the innermost frame is over: it returns its count, to the
\* frame that called it or, from the root call, to initialize_from_preset,
\* which returns the result.
ReturnTodos ==
    /\ pc = "create_todos"
    /\ Top.i > Len(Top.preset_todos)
    /\ IF Len(stack) > 1
       THEN /\ stack' = [SubSeq(stack, 1, Len(stack) - 1) EXCEPT
                           ![Len(stack) - 1] = AfterReturn(@, Top.created_count)]
            /\ UNCHANGED <<pc, ret>>
       ELSE /\ stack' = <<>>
            /\ pc' = "done"
            /\ ret' = Ok(PresetInitializeResult(arg, Str(Get(tag_group_id)),
                                                Len(Get(preset).tags), Top.created_count))
    /\ UNCHANGED <<arg, op, fsVars, dbVars, preset, tag_group_id, tagIdx, tag_name_to_id>>

\* ------------------------------------------------------- specifications
Next ==
    \/ ListPresets
    \/ GetPreset
    \/ InitializeFromPreset
    \/ CreateTagGroup
    \/ CreateTag
    \/ BeginTodos
    \/ CreateTodo
    \/ ReturnTodos

Spec == Init /\ [][Next]_vars

\* The counting function applied to every generated forest.
InitCount == InitLocals /\ dirExists = FALSE /\ files = <<>> /\ arg \in CountForests
SpecCount == InitCount /\ [][CountTodos]_vars


\* ================================================================ claims
\* What the claims speak of, defined on the preset tree itself.

\* The nodes of a forest: each with its position, its title, its tag names,
\* the title of its parent (None for a root) and whether it has children.
RECURSIVE TreeNodes(_, _, _)
TreeNodes(forest, parent, prefix) ==
    UNION { {[path |-> Append(prefix, i), title |-> forest[i].title,
              tag_names |-> forest[i].tag_names, parent |-> parent]}
            \cup (IF IsNone(forest[i].children) THEN {}
                  ELSE TreeNodes(Get(forest[i].children), Some(forest[i].title),
                                 Append(prefix, i))) :
            i \in 1..Len(forest) }

NodeCount(forest) == Cardinality(TreeNodes(forest, None, <<>>))

\* The titles of a forest in depth-first pre-order.
RECURSIVE PreOrder(_)
PreOrder(forest) ==
    IF forest = <<>> THEN <<>>
    ELSE <<Head(forest).title>>
         \o (IF IsNone(Head(forest).children) THEN <<>> ELSE PreOrder(Get(Head(forest).children)))
         \o PreOrder(Tail(forest))

\* Positions of the log holding requests of one kind, and those that succeeded.
Requests(kind) == {i \in DOMAIN log : log[i].op = kind}
Created(kind) == {i \in Requests(kind) : log[i].res.ok}

\* initialize_from_preset has returned its result.
InitializeReturned == op = "initialize_from_preset" /\ pc = "done" /\ ret.ok

\* The preset being materialised (defined once it is loaded).
Loaded == ~IsNone(preset)
P == Get(preset)

\* ---------------------------------------------------------------- C1
\* C1: when initialize_from_preset returns its result, one tag-group
\* creation, len(preset.tags) tag creations and countTodos(preset.todos) todo
\* creations were issued, each succeeded and left one new row, and the result
\* reports tags_created = len(preset.tags) and todos_created =
\* countTodos(preset.todos): the reported counts are the numbers of rows
\* created.
C1_CountsMatch ==
    InitializeReturned =>
        /\ Cardinality(Requests("create_tag_group")) = 1
        /\ Cardinality(Requests("create_tag")) = Len(P.tags)
        /\ Cardinality(Requests("create_todo")) = _count_todos_recursive(P.todos)
        /\ \A i \in DOMAIN log : log[i].res.ok
        /\ Cardinality(tagGroups \ {PriorGroup}) = 1
        /\ Cardinality(tags) = Len(P.tags)
        /\ Cardinality(todos \ {PriorTodo}) = _count_todos_recursive(P.todos)
        /\ ret.val.tags_created = Cardinality(tags)
        /\ ret.val.todos_created = Cardinality(todos \ {PriorTodo})
        /\ ret.val.tag_group_id \in {Str(g.id) : g \in tagGroups \ {PriorGroup}}
        /\ ret.val.preset_name = arg

\* A result for a preset of two tags and three todos, one of them nested.
C1_Witness ==
    /\ InitializeReturned
    /\ ret.val.tags_created = 2
    /\ ret.val.todos_created = 3
    /\ \E t \in todos : t.parent_id # None

\* ---------------------------------------------------------------- C3
\* C3: for every forest of preset todo nodes, _count_todos_recursive returns
\* the number of nodes of the forest, descendants at every depth included,
\* and 0 for the empty forest.
C3_CountIsNodeCount ==
    (op = "_count_todos_recursive" /\ pc = "done") =>
        /\ ret.ok
        /\ ret.val = NodeCount(arg)
        /\ arg = <<>> => ret.val = 0

\* The forest of test_count_todos_recursive: two roots, the first with two
\* children, the second of which has one child; five nodes.
C3_Witness ==
    /\ op = "_count_todos_recursive" /\ pc = "done"
    /\ Len(arg) = 2
    /\ Truthy(arg[1].children) /\ Len(Get(arg[1].children)) = 2
    /\ ~Truthy(Get(arg[1].children)[1].children)
    /\ Truthy(Get(arg[1].children)[2].children)
    /\ ~Truthy(arg[2].children)
    /\ ret = Ok(5)


\* ---------------------------------------------------------------- C2
\* The node of the loaded preset that carries a title (titles are unique in
\* every generated preset).
NodeOf(title) == CHOOSE n \in TreeNodes(P.todos, None, <<>>) : n.title = title

\* C2: in every state of an invocation, each todo created so far has a null
\* parent reference exactly when its node is a root of the preset, and
\* otherwise references the identifier returned by an earlier creation of
\* this invocation, the one issued for the node's parent in the preset tree;
\* every parent reference of a new row is the id of a new row.
C2_ParentCreatedEarlier ==
    Loaded =>
        /\ \A i \in Created("create_todo") :
              LET n == NodeOf(log[i].req.title)
              IN  /\ ([id |-> log[i].res.val] @@ log[i].req) \in todos
                  /\ IF IsNone(n.parent)
                     THEN log[i].req.parent_id = None
                     ELSE /\ log[i].req.parent_id # None
                          /\ \E j \in Created("create_todo") :
                                /\ j < i
                                /\ log[j].req.title = Get(n.parent)
                                /\ log[i].req.parent_id = Some(log[j].res.val)
        /\ \A t \in todos \ {PriorTodo} :
              \/ t.parent_id = None
              \/ \E u \in todos \ {PriorTodo} : t.parent_id = Some(u.id)

\* A grandchild has been created: a chain of three todos.
C2_Witness ==
    /\ Loaded
    /\ \E i \in Created("create_todo") :
          /\ Len(NodeOf(log[i].req.title).path) = 3
          /\ \E t \in todos : Some(t.id) = log[i].req.parent_id /\ t.parent_id # None

\* ---------------------------------------------------------------- C4
\* C4: get_preset of a name whose path <presets dir>/<name>.json does not
\* exist raises PresetNotFoundError carrying exactly that name, in its
\* preset_name and in its message; for a name whose path exists it never
\* raises PresetNotFoundError: it returns the preset parsed from that
\* document or raises the parse or validation error of that document.
C4_NotFoundCarriesName ==
    (op = "get_preset" /\ pc = "done") =>
        LET path == [stem |-> arg, ext |-> "json"]
        IN  IF dirExists /\ path \in DOMAIN files
            THEN LET doc == files[path]
                 IN  IF doc.kind = "json" /\ PresetValid(doc.data)
                     THEN ret = Ok(Preset(doc.data))
                     ELSE /\ ~ret.ok
                          /\ ret.exc.type \in
                                {"JSONDecodeError", "UnicodeDecodeError", "ValidationError"}
            ELSE /\ ~ret.ok
                 /\ ret.exc.type = "PresetNotFoundError"
                 /\ ret.exc.preset_name = arg
                 /\ \E k \in DOMAIN ret.exc.message : ret.exc.message[k] = arg

\* "ghost" is asked for in a directory that holds other presets.
C4_Witness ==
    /\ op = "get_preset" /\ pc = "done" /\ arg = "ghost"
    /\ dirExists /\ JsonFile("study") \in DOMAIN files
    /\ ~ret.ok /\ ret.exc.type = "PresetNotFoundError" /\ ret.exc.preset_name = "ghost"

\* ---------------------------------------------------------------- C5
\* C5: when initialize_from_preset is called with a name that does not load
\* (no backing document, or a document that fails to parse or validate), it
\* has ended with the error of loading (PresetNotFoundError for a missing
\* document), no creation request was issued, and the tag groups, tags and
\* todos of the persistence layer are those from before the call.
C5_LoadFailureCreatesNothing ==
    (op = "initialize_from_preset" /\ ~get_preset(arg).ok) =>
        /\ pc = "done"
        /\ ret = get_preset(arg)
        /\ ~PathExists(_get_preset_path(arg)) =>
              ret.exc.type = "PresetNotFoundError" /\ ret.exc.preset_name = arg
        /\ log = <<>>
        /\ tagGroups = {PriorGroup} /\ tags = {} /\ todos = {PriorTodo}
        /\ nextId = 1

\* initialize_from_preset("ghost") ended with PresetNotFoundError.
C5_Witness ==
    /\ op = "initialize_from_preset" /\ pc = "done" /\ arg = "ghost"
    /\ ~ret.ok /\ ret.exc.type = "PresetNotFoundError"
    /\ log = <<>> /\ tagGroups = {PriorGroup}


\* ---------------------------------------------------------------- C6
\* The names of the preset's tag list.
PresetTagNames == {P.tags[k].name : k \in DOMAIN P.tags}

\* The mapped identifiers of the names that are in the preset's tag list, in
\* the order of the names.
RECURSIVE ResolvedIds(_)
ResolvedIds(names) ==
    IF names = <<>> THEN <<>>
    ELSE (IF Head(names) \in PresetTagNames THEN <<tag_name_to_id[Head(names)]>> ELSE <<>>)
         \o ResolvedIds(Tail(names))

\* C6: for every preset todo with a non-empty tag_names list, the tag-id list
\* given to create_todo is the sequence of the mapped identifiers of the
\* names that are in the preset's tag list, in tag_names order, the other
\* names dropped; the keys of the mapping are the names of the preset's tag
\* list; the only errors after loading are those of the collaborators, and a
\* returned result means that every node of the tree was created.
C6_UnresolvedNamesDropped ==
    Loaded =>
        /\ \A i \in Requests("create_todo") :
              /\ DOMAIN tag_name_to_id = PresetTagNames
              /\ LET n == NodeOf(log[i].req.title)
                 IN  Truthy(n.tag_names) =>
                        log[i].req.tag_ids = Some(ResolvedIds(Get(n.tag_names)))
        /\ (pc = "done" /\ ~ret.ok) =>
              /\ ret.exc \in DownstreamErrors
              /\ log # <<>> /\ log[Len(log)].res = ret
        /\ InitializeReturned =>
              \A n \in TreeNodes(P.todos, None, <<>>) :
                 \E i \in Created("create_todo") : log[i].req.title = n.title

\* A todo named ["b", "a"] in a preset whose only tag is "b": it was created
\* with the identifier of "b" alone, and so was a child of it.
C6_Witness ==
    /\ InitializeReturned
    /\ PresetTagNames = {"b"}
    /\ \E i, j \in Created("create_todo") :
          /\ NodeOf(log[i].req.title).tag_names = Some(<<"b", "a">>)
          /\ log[i].req.tag_ids = Some(<<tag_name_to_id["b"]>>)
          /\ NodeOf(log[j].req.title).parent = Some(log[i].req.title)

\* ---------------------------------------------------------------- C7
\* The *.json entries of the directory whose document parses and validates.
GoodFiles ==
    {f \in DOMAIN files :
        f.ext = "json" /\ files[f].kind = "json" /\ PresetValid(files[f].data)}

\* The summary of a document that parses and validates.
InfoOf(doc) ==
    LET p == Preset(doc.data)
    IN  [name |-> p.name, description |-> p.description, tag_count |-> Len(p.tags),
         todo_count |-> NodeCount(p.todos)]

\* C7: list_presets never raises; it returns the empty list when the presets
\* directory is absent, and otherwise one PresetInfo for each *.json document
\* that parses and validates (tag_count = len(tags), todo_count = the number
\* of nodes of todos) and none for the other entries.
C7_ListSkipsBadDocuments ==
    (op = "list_presets" /\ pc = "done") =>
        /\ ret.ok
        /\ ~dirExists => ret.val = <<>>
        /\ dirExists =>
              /\ Len(ret.val) = Cardinality(GoodFiles)
              /\ \E m \in [DOMAIN ret.val -> GoodFiles] :
                    /\ \A k, l \in DOMAIN m : m[k] = m[l] => k = l
                    /\ \A k \in DOMAIN m : ret.val[k] = InfoOf(files[m[k]])

\* The scenario document beside one with a bad colour: one summary, of one
\* tag and two todos.
C7_Witness ==
    /\ op = "list_presets" /\ pc = "done" /\ dirExists
    /\ \E f, g \in DOMAIN files :
          /\ f.ext = "json" /\ files[f] = StudyDoc
          /\ g.ext = "json" /\ files[g] = BadColorDoc
    /\ ret.ok /\ Len(ret.val) = 1
    /\ ret.val[1].tag_count = 1 /\ ret.val[1].todo_count = 2

\* ---------------------------------------------------------------- C8
\* The creation requests of a whole invocation, in order: the tag group, the
\* tags in preset order, the todos in depth-first pre-order.
ExpectedRequests ==
    <<[op |-> "create_tag_group", key |-> P.tag_group.name]>>
    \o [k \in 1..Len(P.tags) |-> [op |-> "create_tag", key |-> P.tags[k].name]]
    \o LET pre == PreOrder(P.todos)
       IN  [k \in 1..Len(pre) |-> [op |-> "create_todo", key |-> pre[k]]]

\* The creation requests issued so far: each with the name or title it carries.
IssuedRequests ==
    [i \in DOMAIN log |->
        [op |-> log[i].op,
         key |-> IF log[i].op = "create_todo" THEN log[i].req.title ELSE log[i].req.name]]

\* C8: the creation requests of an invocation are issued in order: the tag
\* group first, then the tags in preset order, then the todos in depth-first
\* pre-order of the preset tree (siblings in document order, a parent before
\* its children, a node's subtree before the node's next sibling); a returned
\* result means the whole sequence was issued.
C8_RequestsInPreOrder ==
    Loaded =>
        /\ Len(log) <= Len(ExpectedRequests)
        /\ IssuedRequests = SubSeq(ExpectedRequests, 1, Len(log))
        /\ InitializeReturned => Len(log) = Len(ExpectedRequests)

\* Tags "b" then "a", a root with a child, then a second root.
C8_Witness ==
    /\ InitializeReturned
    /\ [i \in DOMAIN log |-> IssuedRequests[i].key] = <<"Study", "b", "a", "1", "1.1", "2">>

\* ---------------------------------------------------------------- C9
\* C9: a creation request that failed is the last request of the invocation:
\* the invocation has ended with that error and without a result, every
\* earlier request succeeded, and the rows those created are all still there.
C9_FailurePropagates ==
    \A i \in DOMAIN log :
        ~log[i].res.ok =>
            /\ i = Len(log)
            /\ pc = "done"
            /\ ret = Err(log[i].res.exc)
            /\ \A j \in 1..(i - 1) : log[j].res.ok
            /\ \A j \in Created("create_tag_group") :
                  ([id |-> log[j].res.val] @@ log[j].req) \in tagGroups
            /\ \A j \in Created("create_tag") : ([id |-> log[j].res.val] @@ log[j].req) \in tags
            /\ \A j \in Created("create_todo") :
                  ([id |-> log[j].res.val] @@ log[j].req) \in todos
            /\ PriorGroup \in tagGroups /\ PriorTodo \in todos

\* The second todo is rejected after the group, a tag and one todo exist.
C9_Witness ==
    /\ pc = "done" /\ Len(log) >= 4
    /\ log[Len(log)].op = "create_todo"
    /\ log[Len(log)].res = Err([type |-> "OperationalError"])
    /\ ret = Err([type |-> "OperationalError"])
    /\ Cardinality(Created("create_todo")) = 1
    /\ Cardinality(tags) = 1

\* --------------------------------------------------------------- C10
\* The position of the last successful creation of a tag with a name.
LastTag(name) ==
    CHOOSE i \in Created("create_tag") :
        /\ log[i].req.name = name
        /\ \A j \in Created("create_tag") : log[j].req.name = name => j <= i

Range(seq) == {seq[k] : k \in DOMAIN seq}

\* C10: once the tags are created, there is one tag row per entry of the
\* preset's tag list, duplicates of a name included; the mapping holds for
\* each name the identifier of the last tag created with it; and every todo
\* request whose tag_names contains the name carries that identifier and the
\* identifier of no earlier tag of that name.
C10_LastDuplicateWins ==
    (Loaded /\ pc \in {"create_todos", "done"} /\ tagIdx > Len(P.tags)) =>
        LET lastId == [name \in PresetTagNames |-> log[LastTag(name)].res.val]
            earlierIds == [name \in PresetTagNames |->
                             {log[j].res.val : j \in {j \in Created("create_tag") :
                                 log[j].req.name = name /\ j # LastTag(name)}}]
        IN  /\ Cardinality(tags) = Len(P.tags)
            /\ InitializeReturned => ret.val.tags_created = Len(P.tags)
            /\ \A name \in PresetTagNames : tag_name_to_id[name] = lastId[name]
            /\ \A i \in Requests("create_todo") :
                  LET n == NodeOf(log[i].req.title)
                  IN  Truthy(n.tag_names) =>
                         \A name \in PresetTagNames \cap Range(Get(n.tag_names)) :
                            /\ lastId[name] \in Range(Get(log[i].req.tag_ids))
                            /\ earlierIds[name] \cap Range(Get(log[i].req.tag_ids)) = {}

\* Two tags named "a": two rows, and a todo named ["a"] carries the second.
C10_Witness ==
    /\ InitializeReturned
    /\ Len(P.tags) = 2 /\ PresetTagNames = {"a"}
    /\ ret.val.tags_created = 2 /\ Cardinality(tags) = 2
    /\ \E i \in Created("create_todo") :
          /\ NodeOf(log[i].req.title).tag_names = Some(<<"a">>)
          /\ log[i].req.tag_ids = Some(<<log[3].res.val>>)
          /\ log[2].op = "create_tag" /\ log[3].op = "create_tag"
          /\ log[2].res.val # log[3].res.val

=============================================================================
